---- MODULE Spec2Model ----
(***************************************************************************)
(* Release health sessions of sentry-core (src/sentry-core/src/session.rs) *)
(*                                                                         *)
(* Two parts are modelled:                                                 *)
(*  - Session: the per-session state machine (from_stack,                  *)
(*    update_from_event, close, create_envelope_item, Drop);               *)
(*  - SessionFlusher: the queue of itemized updates, the open aggregate    *)
(*    set, enqueue and flush.                                              *)
(*                                                                         *)
(* Spec        the life of one session: started, driven by events, closed  *)
(*             and dropped; the drop enqueues the final update into the    *)
(*             flusher, which is flushed at any time.                      *)
(* SpecEnqueue the flusher alone, fed with arbitrary session updates.      *)
(* SpecBatch   the flusher fed with itemized updates up to its threshold   *)
(*             of 100 and beyond, and dropped.                             *)
(* SpecTransport the flusher with a transport attached and detached.       *)
(* SpecThreads the threads around the flusher: producers, the background   *)
(*             thread with its clock, and the drop; flush is split into    *)
(*             the take under the lock and the sends after it.             *)
(* SpecThreadsFair SpecThreads with the background thread and the clock    *)
(*             running.                                                    *)
(* SpecOrder   the threads with the updates of one session enqueued until  *)
(*             the queue is full.                                          *)
(* SpecShutdownFair SpecThreads with the background thread running and a   *)
(*             drop that has set the flag going on.                        *)
(***************************************************************************)
EXTENDS Integers, Sequences, FiniteSets, TLC

\* ------------------------------------------------------------------------
\* Bounds of the model
\* ------------------------------------------------------------------------
\* calls (update_from_event, close, create_envelope_item) on one session
MaxSessionOps == 3
\* exceptions carried by one event
MaxExceptions == 2
\* number of clock advances
MaxTicks == 1
\* seconds of one clock advance
TickSecs == 1800
\* distinct ids in use (0 stands for None)
MaxDistinctId == 1
\* largest error count carried by an update handed directly to enqueue
MaxErrors == 1
\* number of enqueue calls in SpecEnqueue
MaxEnqueues == 2
\* number of enqueue calls in SpecBatch: two full batches and one more
MaxBatch == 201
\* number of enqueue calls in SpecThreads
MaxThreadEnqueues == 5
\* seconds of one advance of the clock the background thread reads
ClockStep == 30
\* number of enqueue calls in SpecOrder: a full batch and one more
MaxOrderEnqueues == 101
\* advances of the clock in SpecOrder: the run lasts one flush interval
MaxOrderTicks == 2

\* ------------------------------------------------------------------------
\* Program constants
\* ------------------------------------------------------------------------
MAX_SESSION_ITEMS == 100
\* Duration::from_secs(60), in seconds
FLUSH_INTERVAL == 60
\* chrono::Duration::hours(1), in seconds
SECS_PER_HOUR == 3600
\* Level is ordered Debug < Info < Warning < Error < Fatal
LevelDebug == 0
LevelError == 3
LevelFatal == 4

\* the Uuid::new_v4() of the one session of Spec and of the updates of
\* SpecEnqueue
SessionId == 1

\* Option::None of the optional numeric fields
NoDuration == -1
NoDistinctId == 0

Levels == LevelDebug..LevelFatal
\* Option<Mechanism> with Option<bool> handled
Mechanisms == {"NoMechanism", "HandledNone", "HandledTrue", "HandledFalse"}
SessionStatus == {"Ok", "Exited", "Crashed", "Abnormal"}
SessionMode == {"Application", "Request"}

RECURSIVE SeqsUpTo(_, _)
SeqsUpTo(S, n) ==
    IF n = 0 THEN {<< >>}
    ELSE LET shorter == SeqsUpTo(S, n - 1)
         IN  shorter \cup {Append(s, x) : s \in shorter, x \in S}

\* Event: level and exception.values (each value reduced to its mechanism)
Events == [level : Levels, exception : SeqsUpTo(Mechanisms, MaxExceptions)]

DistinctIds == NoDistinctId..MaxDistinctId
\* scope.user: absent, or a user with optional id, email and username
NoUser == [present |-> FALSE, id |-> NoDistinctId, email |-> NoDistinctId,
           username |-> NoDistinctId]
Users == {NoUser} \cup
         [present : {TRUE}, id : DistinctIds, email : DistinctIds,
          username : DistinctIds]

VARIABLES
    now,        \* the clock (Utc::now / Instant::now), in seconds
    ticks,      \* clock advances so far
    mode,       \* client option session_mode
    transport,  \* TRUE iff a transport is attached
    session,    \* the session: phase none | live | dropped, and its fields
    hist,       \* calls made on the session, oldest first
    returned,   \* what the last create_envelope_item returned
    emitted,    \* updates emitted for the session, oldest first
    errEvents,  \* error-classified events applied to the session while Ok
    queue,      \* SessionQueue.0: itemized updates
    aggregate,  \* SessionQueue.1: the open aggregate set
    sent,       \* envelopes handed to the transport, oldest first
    enqueues,   \* enqueue calls so far (SpecEnqueue)
    aggCount,   \* updates of terminal status aggregated since the last flush
    lastOp,     \* the last flusher call and its argument
    pcDrop,     \* where the drop of the SessionFlusher stands
    discarded,  \* updates taken by a flush that found no transport
    pcWorker,   \* where the background thread stands
    pcProducer, \* where each producer stands: idle, or in the flush of enqueue
    shutdown,   \* the flag behind the shutdown mutex
    poisoned,   \* TRUE iff the shutdown mutex is poisoned
    notified,   \* TRUE iff a notification of the condvar woke the waiter
    elapsed,    \* last_flush.elapsed() of the background thread, in seconds
    taken       \* per thread: what its flush took and has not sent yet

\* the threads around the flusher
threadVars == <<pcWorker, pcProducer, shutdown, poisoned, notified, elapsed,
                taken>>

\* the variables of the specifications that follow Spec and SpecEnqueue
extVars == <<pcDrop, discarded, threadVars>>

vars == <<now, ticks, mode, transport, session, hist, returned, emitted,
          errEvents, queue, aggregate, sent, enqueues, aggCount, lastOp,
          extVars>>

sessionVars == <<session, hist, returned, emitted, errEvents>>
flusherVars == <<queue, aggregate, sent>>

\* ------------------------------------------------------------------------
\* Values
\* ------------------------------------------------------------------------
NoRelease == "None"
Releases == {"some-release"}

\* SessionUpdate; sequence and timestamp are always None and left out
NoUpdate == [session_id |-> 0, distinct_id |-> NoDistinctId, started |-> 0,
             init |-> FALSE, duration |-> NoDuration, status |-> "Ok",
             errors |-> 0, attributes |-> [release |-> NoRelease]]

\* the slot before any session was started
NoSession == [phase |-> "none", session_update |-> NoUpdate, started |-> 0,
              dirty |-> FALSE]

\* Option<SessionAggregates>
NoAggregate == [present |-> FALSE, aggregates |-> << >>,
                attributes |-> [release |-> NoRelease]]

\* Option<EnvelopeItem> returned by create_envelope_item
NoItem == [some |-> FALSE, update |-> NoUpdate]

\* the stack layers from_stack may be called with
Stacks == [client : BOOLEAN, release : Releases \cup {NoRelease}, user : Users]

\* ------------------------------------------------------------------------
\* Session
\* ------------------------------------------------------------------------
\* user.id, or else user.email, or else user.username
distinct_id(user) ==
    IF ~user.present THEN NoDistinctId
    ELSE IF user.id # NoDistinctId THEN user.id
    ELSE IF user.email # NoDistinctId THEN user.email
    ELSE user.username

\* Session::from_stack: None without a client or without a release
from_stack(stack, t) ==
    IF ~stack.client \/ stack.release = NoRelease
    THEN NoSession
    ELSE [phase |-> "live",
          session_update |->
              [session_id |-> SessionId,
               distinct_id |-> distinct_id(stack.user),
               started |-> t,
               init |-> TRUE,
               duration |-> NoDuration,
               status |-> "Ok",
               errors |-> 0,
               attributes |-> [release |-> stack.release]],
          started |-> t,
          dirty |-> TRUE]

\* scan_exceptions without the has_error = true of the loop body
RECURSIVE scan_exceptions_keeps_has_error(_, _, _)
scan_exceptions_keeps_has_error(values, i, acc) ==
    IF i > Len(values) THEN acc
    ELSE IF values[i] = "HandledFalse"
         THEN [has_error |-> acc.has_error, is_crash |-> TRUE]
         ELSE scan_exceptions_keeps_has_error(values, i + 1, acc)

\* scan_exceptions taking an unknown handled flag for an unhandled exception
RECURSIVE scan_exceptions_unknown_is_crash(_, _, _)
scan_exceptions_unknown_is_crash(values, i, acc) ==
    IF i > Len(values) THEN acc
    ELSE IF values[i] \in {"HandledFalse", "HandledNone"}
         THEN [has_error |-> TRUE, is_crash |-> TRUE]
         ELSE scan_exceptions_unknown_is_crash(values, i + 1,
                  [has_error |-> TRUE, is_crash |-> acc.is_crash])

\* the loop over event.exception.values, from index i on
RECURSIVE scan_exceptions(_, _, _)
scan_exceptions(values, i, acc) ==
    IF i > Len(values) THEN acc
    ELSE IF values[i] = "HandledFalse"
         THEN [has_error |-> TRUE, is_crash |-> TRUE]
         ELSE scan_exceptions(values, i + 1,
                              [has_error |-> TRUE, is_crash |-> acc.is_crash])

\* update_from_event without the early return on a terminal status
update_from_event_unguarded(s, event) ==
    LET r == scan_exceptions(event.exception, 1,
                 [has_error |-> event.level >= LevelError, is_crash |-> FALSE])
    IN  [s EXCEPT
            !.session_update.status = IF r.is_crash THEN "Crashed" ELSE @,
            !.session_update.errors = IF r.has_error THEN @ + 1 ELSE @,
            !.dirty = IF r.has_error THEN TRUE ELSE @]

\* update_from_event marking the session dirty on every event applied
update_from_event_always_dirty(s, event) ==
    IF s.session_update.status # "Ok" THEN s
    ELSE LET r == scan_exceptions(event.exception, 1,
                      [has_error |-> event.level >= LevelError,
                       is_crash |-> FALSE])
         IN  [s EXCEPT
                 !.session_update.status = IF r.is_crash THEN "Crashed" ELSE @,
                 !.session_update.errors = IF r.has_error THEN @ + 1 ELSE @,
                 !.dirty = TRUE]

update_from_event(s, event) ==
    IF s.session_update.status # "Ok" THEN s
    ELSE LET r == scan_exceptions(event.exception, 1,
                      [has_error |-> event.level >= LevelError,
                       is_crash |-> FALSE])
         IN  [s EXCEPT
                 !.session_update.status = IF r.is_crash THEN "Crashed" ELSE @,
                 !.session_update.errors = IF r.has_error THEN @ + 1 ELSE @,
                 !.dirty = IF r.has_error THEN TRUE ELSE @]

\* close without dirty = true
close_keeps_dirty(s, t) ==
    IF s.session_update.status = "Ok"
    THEN [s EXCEPT !.session_update.duration = t - s.started,
                   !.session_update.status = "Exited"]
    ELSE s

\* close without the check of the status
close_unguarded(s, t) ==
    [s EXCEPT !.session_update.duration = t - s.started,
              !.session_update.status = "Exited",
              !.dirty = TRUE]

\* t is the reading of the monotonic clock
close(s, t) ==
    IF s.session_update.status = "Ok"
    THEN [s EXCEPT !.session_update.duration = t - s.started,
                   !.session_update.status = "Exited",
                   !.dirty = TRUE]
    ELSE s

\* create_envelope_item without init = false
create_envelope_item_keeps_init(s) ==
    IF s.dirty
    THEN [session |-> [s EXCEPT !.dirty = FALSE],
          item |-> [some |-> TRUE, update |-> s.session_update]]
    ELSE [session |-> s, item |-> NoItem]

\* create_envelope_item without dirty = false
create_envelope_item_keeps_dirty(s) ==
    IF s.dirty
    THEN [session |-> [s EXCEPT !.session_update.init = FALSE],
          item |-> [some |-> TRUE, update |-> s.session_update]]
    ELSE [session |-> s, item |-> NoItem]

\* the session afterwards and the item returned
create_envelope_item(s) ==
    IF s.dirty
    THEN [session |-> [s EXCEPT !.session_update.init = FALSE,
                                !.dirty = FALSE],
          item |-> [some |-> TRUE, update |-> s.session_update]]
    ELSE [session |-> s, item |-> NoItem]

\* ------------------------------------------------------------------------
\* SessionFlusher
\* ------------------------------------------------------------------------
\* Rust's % on integers: the remainder has the sign of the dividend
rust_rem(a, b) == IF a >= 0 THEN a % b ELSE 0 - ((0 - a) % b)

\* DurationRound::duration_trunc on a timestamp in seconds
duration_trunc(stamp, span) ==
    LET delta_down == rust_rem(stamp, span)
    IN  IF delta_down = 0 THEN stamp
        ELSE IF delta_down > 0 THEN stamp - delta_down
        ELSE stamp - (span + delta_down)

SessionItem(update) == [type |-> "SessionUpdate", update |-> update]
AggregatesItem(agg) ==
    [type |-> "SessionAggregates", aggregates |-> agg.aggregates,
     attributes |-> agg.attributes]

\* send_envelope without the check for an attached transport
send_envelope_unchecked(snt, envelope, tr) == Append(snt, envelope)

\* transport.send_envelope, when a transport is attached
send_envelope(snt, envelope, tr) == IF tr THEN Append(snt, envelope) ELSE snt

\* the loop of flush over the taken queue, from index i on, one envelope at
\* a time: the loop adds update after update to the envelope and, on finding
\* MAX_SESSION_ITEMS items in it, sends it and starts a new one; the result
\* is what was sent, the envelope left to send and its item count
RECURSIVE flush_items(_, _, _, _)
flush_items(q, i, snt, tr) ==
    LET last == IF i + MAX_SESSION_ITEMS - 1 < Len(q)
                THEN i + MAX_SESSION_ITEMS - 1 ELSE Len(q)
        envelope == [k \in 1..(last - i + 1) |-> SessionItem(q[i + k - 1])]
    IN  IF last = Len(q)
        THEN [sent |-> snt, envelope |-> envelope, items |-> last - i + 1]
        ELSE flush_items(q, last + 1, send_envelope(snt, envelope, tr), tr)

\* flush without the early return on an empty queue
flush_sends_empty_envelope(q, agg, snt, tr) ==
    LET snt1 == IF agg.present
                THEN send_envelope(snt, <<AggregatesItem(agg)>>, tr)
                ELSE snt
        r == flush_items(q, 1, snt1, tr)
    IN  [queue |-> << >>,
         aggregate |-> NoAggregate,
         sent |-> send_envelope(r.sent, r.envelope, tr)]

\* SessionFlusher::flush: the pending state left behind and what was sent
flush(q, agg, snt, tr) ==
    LET snt1 == IF agg.present
                THEN send_envelope(snt, <<AggregatesItem(agg)>>, tr)
                ELSE snt
        r == flush_items(q, 1, snt1, tr)
    IN  [queue |-> << >>,
         aggregate |-> NoAggregate,
         sent |-> IF q = << >> THEN snt1
                  ELSE send_envelope(r.sent, r.envelope, tr)]

\* find_group comparing the hour only
RECURSIVE find_group_ignores_distinct_id(_, _, _, _)
find_group_ignores_distinct_id(aggregates, i, started, did) ==
    IF i > Len(aggregates) THEN 0
    ELSE IF aggregates[i].started = started THEN i
         ELSE find_group_ignores_distinct_id(aggregates, i + 1, started, did)

\* index of the first bucket with this key, 0 when there is none
RECURSIVE find_group(_, _, _, _)
find_group(aggregates, i, started, did) ==
    IF i > Len(aggregates) THEN 0
    ELSE IF aggregates[i].started = started /\ aggregates[i].distinct_id = did
         THEN i
         ELSE find_group(aggregates, i + 1, started, did)

\* count_status without the check of errors on Exited
count_status_ignores_errors(group, update) ==
    IF update.status = "Exited" THEN [group EXCEPT !.exited = @ + 1]
    ELSE IF update.status = "Crashed" THEN [group EXCEPT !.crashed = @ + 1]
    ELSE IF update.status = "Abnormal" THEN [group EXCEPT !.abnormal = @ + 1]
    ELSE group

\* the match on session_update.status
count_status(group, update) ==
    IF update.status = "Exited"
    THEN IF update.errors > 0
         THEN [group EXCEPT !.errored = @ + 1]
         ELSE [group EXCEPT !.exited = @ + 1]
    ELSE IF update.status = "Crashed" THEN [group EXCEPT !.crashed = @ + 1]
    ELSE IF update.status = "Abnormal" THEN [group EXCEPT !.abnormal = @ + 1]
    ELSE group

\* the condition of enqueue with the init flag not negated
is_itemized_swapped(update, m) == m = "Application" \/ update.init

\* the condition of enqueue without the init flag
is_itemized_by_mode(update, m) == m = "Application"

\* TRUE iff enqueue pushes the update onto the itemized queue
is_itemized(update, m) == m = "Application" \/ ~update.init

\* the aggregate branch of enqueue
enqueue_aggregate(agg, update) ==
    LET aggregate1 == IF agg.present THEN agg
                      ELSE [present |-> TRUE, aggregates |-> << >>,
                            attributes |-> update.attributes]
        started == duration_trunc(update.started, SECS_PER_HOUR)
        found == find_group(aggregate1.aggregates, 1, started,
                            update.distinct_id)
        pushed == IF found = 0
                  THEN Append(aggregate1.aggregates,
                              [started |-> started,
                               distinct_id |-> update.distinct_id,
                               exited |-> 0, errored |-> 0,
                               abnormal |-> 0, crashed |-> 0])
                  ELSE aggregate1.aggregates
        group == IF found = 0 THEN Len(pushed) ELSE found
    IN  [aggregate1 EXCEPT
            !.aggregates = [pushed EXCEPT ![group] = count_status(@, update)]]

\* enqueue flushing only once the queue is longer than MAX_SESSION_ITEMS
enqueue_flushes_above_threshold(q, agg, snt, update, m, tr) ==
    IF is_itemized(update, m)
    THEN LET q1 == Append(q, update)
         IN  IF Len(q1) > MAX_SESSION_ITEMS
             THEN flush(q1, agg, snt, tr)
             ELSE [queue |-> q1, aggregate |-> agg, sent |-> snt]
    ELSE [queue |-> q, aggregate |-> enqueue_aggregate(agg, update),
          sent |-> snt]

\* SessionFlusher::enqueue: the pending state afterwards and what was sent
enqueue(q, agg, snt, update, m, tr) ==
    IF is_itemized(update, m)
    THEN LET q1 == Append(q, update)
         IN  IF Len(q1) >= MAX_SESSION_ITEMS
             THEN flush(q1, agg, snt, tr)
             ELSE [queue |-> q1, aggregate |-> agg, sent |-> snt]
    ELSE [queue |-> q, aggregate |-> enqueue_aggregate(agg, update),
          sent |-> snt]

\* Client::enqueue_session: hands the update to the flusher with the
\* client's session mode
enqueue_session(q, agg, snt, update, m, tr) ==
    enqueue(q, agg, snt, update, m, tr)

\* ------------------------------------------------------------------------
\* Classification of events as the session protocol states it, used for
\* the bookkeeping variables hist and errEvents only
\* ------------------------------------------------------------------------
IsErrorEvent(e) == e.level >= LevelError \/ Len(e.exception) > 0
IsUnhandledEvent(e) ==
    \E i \in 1..Len(e.exception) : e.exception[i] = "HandledFalse"
\* plain: below Error and no exception; error: an error without an unhandled
\* exception; unhandled: an unhandled exception on an event of level Error or
\* above; unhandled_low: an unhandled exception on an event below Error
EventKind(e) ==
    IF IsUnhandledEvent(e)
    THEN IF e.level >= LevelError THEN "unhandled" ELSE "unhandled_low"
    ELSE IF IsErrorEvent(e) THEN "error"
    ELSE "plain"

\* the sum of the four counters over all buckets, from index i on
RECURSIVE SumCounts(_, _)
SumCounts(aggregates, i) ==
    IF i > Len(aggregates) THEN 0
    ELSE aggregates[i].exited + aggregates[i].errored
         + aggregates[i].abnormal + aggregates[i].crashed
         + SumCounts(aggregates, i + 1)
TotalCount(agg) == SumCounts(agg.aggregates, 1)

\* aggCount after an enqueue of update that left the aggregate set agg1
\* behind: the open set is taken by the flush an enqueue may trigger
CountAfterEnqueue(update, m, agg1) ==
    IF is_itemized(update, m)
    THEN IF agg1.present THEN aggCount ELSE 0
    ELSE IF update.status # "Ok" THEN aggCount + 1 ELSE aggCount

\* one entry of hist: the call and the dirty flag it found
Call(op, s) == [op |-> op, dirty |-> s.dirty]
\* one entry of emitted: the update and where it was emitted
Emission(update, via) == [update |-> update, via |-> via]

NoOp == [op |-> "none", update |-> NoUpdate, mode |-> "Application"]

\* nothing was discarded yet: the ids of the itemized updates and the
\* number of the aggregated ones
NoneDiscarded == [items |-> {}, aggregated |-> 0]

\* ------------------------------------------------------------------------
\* Initial state
\* ------------------------------------------------------------------------
\* the threads that call enqueue
Producers == {"producer1", "producer2"}
\* the threads that flush
Threads == {"worker", "drop"} \cup Producers
\* the locals queue and aggregate of a flush with nothing left to send
NoBatch == [queue |-> << >>, aggregate |-> NoAggregate]

ExtInit ==
    /\ pcDrop = "alive"
    /\ discarded = NoneDiscarded
    /\ pcWorker = "start"
    /\ pcProducer = [p \in Producers |-> "idle"]
    /\ shutdown = FALSE
    /\ poisoned = FALSE
    /\ notified = FALSE
    /\ elapsed = 0
    /\ taken = [t \in Threads |-> NoBatch]

Init ==
    /\ now = 0
    /\ ticks = 0
    /\ mode \in SessionMode
    /\ transport = TRUE
    /\ session = NoSession
    /\ hist = << >>
    /\ returned = NoItem
    /\ emitted = << >>
    /\ errEvents = 0
    /\ queue = << >>
    /\ aggregate = NoAggregate
    /\ sent = << >>
    /\ enqueues = 0
    /\ aggCount = 0
    /\ lastOp = NoOp
    /\ ExtInit

\* ------------------------------------------------------------------------
\* Actions
\* ------------------------------------------------------------------------
\* the clock advances
Tick ==
    /\ ticks < MaxTicks
    /\ ticks' = ticks + 1
    /\ now' = now + TickSecs
    /\ UNCHANGED <<mode, transport, sessionVars, flusherVars, enqueues, aggCount,
                   lastOp>>
    /\ UNCHANGED extVars

\* the session is started; nothing happens when from_stack returns None
StartSession(stack) ==
    /\ session.phase = "none"
    /\ session' = from_stack(stack, now)
    /\ UNCHANGED <<hist, returned, emitted, errEvents>>
    /\ UNCHANGED <<now, ticks, mode, transport, flusherVars, enqueues, aggCount,
                   lastOp>>
    /\ UNCHANGED extVars

UpdateFromEvent(event) ==
    /\ session.phase = "live"
    /\ Len(hist) < MaxSessionOps
    /\ session' = update_from_event(session, event)
    /\ hist' = Append(hist, Call(EventKind(event), session))
    /\ errEvents' = IF session.session_update.status = "Ok" /\ IsErrorEvent(event)
                    THEN errEvents + 1 ELSE errEvents
    /\ UNCHANGED <<now, ticks, mode, transport, returned, emitted, flusherVars,
                   enqueues, aggCount, lastOp>>
    /\ UNCHANGED extVars

Close ==
    /\ session.phase = "live"
    /\ Len(hist) < MaxSessionOps
    /\ session' = close(session, now)
    /\ hist' = Append(hist, Call("close", session))
    /\ UNCHANGED <<now, ticks, mode, transport, returned, emitted, errEvents,
                   flusherVars, enqueues, aggCount, lastOp>>
    /\ UNCHANGED extVars

CreateEnvelopeItem ==
    /\ session.phase = "live"
    /\ Len(hist) < MaxSessionOps
    /\ LET r == create_envelope_item(session)
       IN  /\ session' = r.session
           /\ returned' = r.item
           /\ emitted' = IF r.item.some
                         THEN Append(emitted, Emission(r.item.update, "delta"))
                         ELSE emitted
    /\ hist' = Append(hist, Call("create_envelope_item", session))
    /\ UNCHANGED <<now, ticks, mode, transport, errEvents, flusherVars,
                   enqueues, aggCount, lastOp>>
    /\ UNCHANGED extVars

\* impl Drop for Session
DropSession ==
    /\ session.phase = "live"
    /\ LET closed == close(session, now)
           r == enqueue_session(queue, aggregate, sent, closed.session_update,
                                mode, transport)
       IN  /\ session' = [closed EXCEPT !.phase = "dropped"]
           /\ IF closed.dirty
              THEN /\ queue' = r.queue
                   /\ aggregate' = r.aggregate
                   /\ sent' = r.sent
                   /\ emitted' = Append(emitted,
                                     Emission(closed.session_update, "final"))
                   /\ aggCount' = CountAfterEnqueue(closed.session_update,
                                                    mode, r.aggregate)
                   /\ lastOp' = [op |-> "enqueue",
                                 update |-> closed.session_update,
                                 mode |-> mode]
              ELSE UNCHANGED <<flusherVars, emitted, aggCount, lastOp>>
    /\ UNCHANGED <<now, ticks, mode, transport, hist, returned, errEvents,
                   enqueues>>
    /\ UNCHANGED extVars

\* SessionFlusher::flush, from the background thread or at shutdown
Flush ==
    /\ LET r == flush(queue, aggregate, sent, transport)
       IN  /\ queue' = r.queue
           /\ aggregate' = r.aggregate
           /\ sent' = r.sent
    /\ aggCount' = 0
    /\ lastOp' = [op |-> "flush", update |-> NoUpdate, mode |-> "Application"]
    /\ UNCHANGED <<now, ticks, mode, transport, sessionVars, enqueues>>
    /\ UNCHANGED extVars

Next ==
    \/ Tick
    \/ \E stack \in Stacks : StartSession(stack)
    \/ \E event \in Events : UpdateFromEvent(event)
    \/ Close
    \/ CreateEnvelopeItem
    \/ DropSession
    \/ Flush

Spec == Init /\ [][Next]_vars

\* ------------------------------------------------------------------------
\* The flusher alone: enqueue is called with arbitrary session updates
\* ------------------------------------------------------------------------
\* started and distinct id of the updates: three start times without
\* distinct id, two of them in one hour, and one with a distinct id
Keys ==
    {[started |-> st, distinct_id |-> NoDistinctId] :
        st \in {0, TickSecs, SECS_PER_HOUR}}
    \cup {[started |-> 0, distinct_id |-> MaxDistinctId]}

Updates ==
    {[session_id |-> SessionId, distinct_id |-> k.distinct_id,
      started |-> k.started, init |-> i,
      duration |-> IF status = "Exited" THEN 0 ELSE NoDuration,
      status |-> status, errors |-> e,
      attributes |-> [release |-> rel]] :
        k \in Keys, i \in BOOLEAN, status \in SessionStatus,
        e \in {0, MaxErrors}, rel \in Releases}

EnqueueUpdate(update) ==
    /\ enqueues < MaxEnqueues
    /\ enqueues' = enqueues + 1
    /\ LET r == enqueue(queue, aggregate, sent, update, mode, transport)
       IN  /\ queue' = r.queue
           /\ aggregate' = r.aggregate
           /\ sent' = r.sent
           /\ aggCount' = CountAfterEnqueue(update, mode, r.aggregate)
    /\ lastOp' = [op |-> "enqueue", update |-> update, mode |-> mode]
    /\ UNCHANGED <<now, ticks, mode, transport, sessionVars>>
    /\ UNCHANGED extVars

NextEnqueue ==
    \/ \E update \in Updates : EnqueueUpdate(update)
    \/ Flush

SpecEnqueue == Init /\ [][NextEnqueue]_vars

\* ========================================================================
\* Properties of the session (Spec)
\* ========================================================================
su == session.session_update
HistOps == [i \in 1..Len(hist) |-> hist[i].op]
\* a step in the life of the session
SameSession == session.phase # "none"
\* the step that drops the session of the slot
DropStep == session.phase = "live" /\ session'.phase = "dropped"

\* C1: once the status of a session is not Ok, every later call on it
\* (update_from_event with any event, close, also the close of the drop)
\* leaves status, errors and duration as they were.
C1_TerminalAbsorbing ==
    [][(SameSession /\ su.status # "Ok")
         => /\ session'.session_update.status = su.status
            /\ session'.session_update.errors = su.errors
            /\ session'.session_update.duration = su.duration]_vars

\* a crashed session received an error event and a close, and is unchanged
C1_Witness ==
    /\ HistOps = <<"unhandled", "error", "close">>
    /\ su.status = "Crashed"
    /\ su.errors = 1
    /\ su.duration = NoDuration
    /\ now > session.started

\* C2: errors never decreases and equals the number of events classified as
\* errors (level >= Error or at least one exception) applied while the
\* session was still Ok, the one that made it non-Ok included, whatever
\* create_envelope_item calls happened in between.
C2_ErrorsCount ==
    /\ [](session.phase # "none" => su.errors = errEvents)
    /\ [][SameSession => session'.session_update.errors >= su.errors]_vars

\* two errors counted with a delta emitted in between, the second one a crash
C2_Witness ==
    /\ HistOps = <<"error", "create_envelope_item", "unhandled_low">>
    /\ su.errors = 2
    /\ su.status = "Crashed"

\* C3: of the updates emitted for one session (deltas of
\* create_envelope_item and the final update of the drop), the first has
\* init = TRUE and every later one has init = FALSE.
C3_InitOnlyFirst ==
    \A i \in 1..Len(emitted) :
        /\ emitted[i].update.session_id = su.session_id
        /\ emitted[i].update.init = (i = 1)

\* a session that emitted two deltas and the final update
C3_Witness ==
    /\ session.phase = "dropped"
    /\ Len(emitted) = 3
    /\ emitted[2].via = "delta"
    /\ emitted[3].via = "final"

\* the last two calls were update_from_event with a plain event on an Ok
\* session and create_envelope_item
PlainThenItem ==
    /\ session.phase = "live"
    /\ su.status = "Ok"
    /\ Len(hist) >= 2
    /\ hist[Len(hist) - 1].op = "plain"
    /\ hist[Len(hist)].op = "create_envelope_item"

\* C4 as claimed: after update_from_event with an event below Error and
\* without exception on an Ok session, create_envelope_item returns nothing,
\* also on a freshly created session.
C4_Original == PlainThenItem => ~returned.some

\* C4 as amended: such a call leaves the dirty flag as it found it, so the
\* create_envelope_item right after it returns an update exactly when the
\* session was dirty before the call; on a freshly created session that is
\* the init delta.
C4_PlainEventKeepsDirty ==
    PlainThenItem =>
        /\ returned.some = hist[Len(hist) - 1].dirty
        /\ (Len(hist) = 2 => returned.some /\ returned.update.init
                             /\ returned.update.errors = 0)

\* a plain event on a session whose delta was already emitted: nothing
C4_Witness ==
    /\ HistOps = <<"create_envelope_item", "plain", "create_envelope_item">>
    /\ ~returned.some
    /\ Len(emitted) = 1

\* C5: the drop closes the session and then enqueues exactly one final
\* update iff the session is dirty after the close; for a session still Ok
\* at the drop the final update exists, is Exited with a duration, carries
\* all errors counted and has init = TRUE iff no delta was emitted before.
C5_DropEnqueuesFinal ==
    [][DropStep =>
        LET final == session'.session_update
            exists == emitted' # emitted
            itemized == mode = "Application" \/ ~final.init
        IN  /\ exists = (session.dirty \/ su.status = "Ok")
            /\ exists =>
                 /\ emitted' = Append(emitted, Emission(final, "final"))
                 /\ lastOp'.op = "enqueue" /\ lastOp'.update = final
                 /\ IF itemized
                    THEN queue' = Append(queue, final) /\ aggregate' = aggregate
                    ELSE queue' = queue /\ aggregate' # aggregate
            /\ ~exists => UNCHANGED <<flusherVars, lastOp>>
            /\ su.status = "Ok" =>
                 /\ exists
                 /\ final.status = "Exited"
                 /\ final.duration # NoDuration
                 /\ final.duration = now - session.started
                 /\ final.errors = errEvents
                 /\ final.init = (Len(emitted) = 0)]_vars

\* a session dropped while Ok after an emitted delta: the final update is
\* Exited, not init, and took some time
C5_Witness ==
    /\ session.phase = "dropped"
    /\ HistOps = <<"error", "create_envelope_item", "error">>
    /\ Len(emitted) = 2
    /\ emitted[2].via = "final"
    /\ emitted[2].update.status = "Exited"
    /\ emitted[2].update.errors = 2
    /\ emitted[2].update.duration > 0
    /\ ~emitted[2].update.init

\* the scenarios of C6: one event, its delta emitted at capture, then the
\* session is closed and dropped (the drop closes, an explicit close before
\* it changes nothing)
Scenario(kind) ==
    /\ mode = "Application"
    /\ session.phase = "dropped"
    /\ HistOps \in {<<kind, "create_envelope_item">>,
                    <<kind, "create_envelope_item", "close">>}

TwoUpdates ==
    /\ Len(emitted) = 2
    /\ emitted[1].via = "delta"
    /\ emitted[1].update.errors = 1
    /\ emitted[1].update.init
    /\ emitted[2].via = "final"
    /\ emitted[2].update.errors = 1
    /\ ~emitted[2].update.init

\* C6 as claimed: in itemized mode a session with one error-level event
\* carrying an unhandled exception, its delta emitted at capture, then closed
\* and dropped, yields two updates: errors=1 init=true at capture and
\* errors=1 init=false at close.
C6_Original == Scenario("unhandled") => TwoUpdates

\* C6 as amended: that session yields one update only, Crashed with errors=1
\* and init=true, emitted at capture; close and drop emit nothing. The two
\* updates (Ok errors=1 init=true, then Exited errors=1 init=false) are what
\* an error event without unhandled exception yields.
C6_CrashedSessionOneUpdate ==
    /\ Scenario("unhandled") =>
         /\ Len(emitted) = 1
         /\ emitted[1].via = "delta"
         /\ emitted[1].update.status = "Crashed"
         /\ emitted[1].update.errors = 1
         /\ emitted[1].update.init
         /\ su.status = "Crashed"
         /\ su.duration = NoDuration
    /\ Scenario("error") =>
         /\ TwoUpdates
         /\ emitted[1].update.status = "Ok"
         /\ emitted[2].update.status = "Exited"

\* the crashed session after close and drop
C6_Witness ==
    /\ Scenario("unhandled")
    /\ HistOps = <<"unhandled", "create_envelope_item", "close">>
    /\ Len(emitted) = 1

\* ========================================================================
\* Properties of enqueue (SpecEnqueue; C8 is about the drop of Spec)
\* ========================================================================
\* the step of an enqueue call in SpecEnqueue; lastOp' holds its argument
EnqueueStep == enqueues' = enqueues + 1
\* the enqueue does not reach the capacity threshold
BelowThreshold == Len(queue) + 1 < MAX_SESSION_ITEMS
\* the start of the hour a timestamp lies in
Hour(t) == (t \div SECS_PER_HOUR) * SECS_PER_HOUR
BucketTotal(b) == b.exited + b.errored + b.abnormal + b.crashed

\* the step appended the update raw to the itemized queue
AppendedRaw(update) ==
    /\ queue' = Append(queue, update)
    /\ aggregate' = aggregate

\* the step counted the update in its hourly bucket and queued nothing
Folded(update) ==
    /\ queue' = queue
    /\ aggregate'.present
    /\ \E g \in 1..Len(aggregate'.aggregates) :
          /\ aggregate'.aggregates[g].started = Hour(update.started)
          /\ aggregate'.aggregates[g].distinct_id = update.distinct_id
    /\ TotalCount(aggregate') =
          TotalCount(aggregate) + (IF update.status # "Ok" THEN 1 ELSE 0)

\* C7 as claimed: in itemized mode every update and in aggregated mode every
\* update with init = TRUE is appended raw to the itemized queue; in
\* aggregated mode every update with init = FALSE is folded into the hourly
\* buckets and not appended.
C7_Original ==
    [][(EnqueueStep /\ BelowThreshold) =>
          IF lastOp'.mode = "Application" \/ lastOp'.update.init
          THEN AppendedRaw(lastOp'.update)
          ELSE Folded(lastOp'.update)]_vars

\* C7 as amended: in itemized mode every update and in aggregated mode every
\* update with init = FALSE is appended raw to the itemized queue; in
\* aggregated mode every update with init = TRUE is folded into the hourly
\* buckets and not appended.
C7_EnqueueRouting ==
    [][(EnqueueStep /\ BelowThreshold) =>
          IF lastOp'.mode = "Application" \/ ~lastOp'.update.init
          THEN AppendedRaw(lastOp'.update)
          ELSE Folded(lastOp'.update)]_vars

\* aggregated mode: an update with init = FALSE sits in the queue behind a
\* counted one with init = TRUE
C7_Witness ==
    /\ mode = "Request"
    /\ lastOp.op = "enqueue"
    /\ ~lastOp.update.init
    /\ queue = <<lastOp.update>>
    /\ aggregate.present
    /\ TotalCount(aggregate) = 1

\* C8: in request mode the final update of a session is counted in the
\* aggregate iff no delta of the session was sent before (init = TRUE);
\* the final update of a session that had a delta sent (init = FALSE) is
\* queued as an item and changes no aggregate: never both.
C8_ItemizedOrAggregated ==
    [][(DropStep /\ mode = "Request" /\ emitted' # emitted) =>
          LET final == session'.session_update
          IN  /\ final.init = (Len(emitted) = 0)
              /\ IF Len(emitted) = 0
                 THEN /\ queue' = queue
                      /\ TotalCount(aggregate') = TotalCount(aggregate) + 1
                 ELSE /\ queue' = Append(queue, final)
                      /\ aggregate' = aggregate]_vars

\* request mode: the session had a delta sent, its final update is queued
\* and no aggregate was opened
C8_Witness ==
    /\ mode = "Request"
    /\ session.phase = "dropped"
    /\ Len(emitted) = 2
    /\ emitted[2].via = "final"
    /\ ~emitted[2].update.init
    /\ queue = <<emitted[2].update>>
    /\ ~aggregate.present

\* the counter an aggregated update of terminal status belongs to
Counter(update) ==
    IF update.status = "Exited"
    THEN IF update.errors = 0 THEN "exited" ELSE "errored"
    ELSE IF update.status = "Crashed" THEN "crashed"
    ELSE "abnormal"

\* the step raised the counter of the update by one in one bucket and left
\* every other counter and bucket alone
OneIncrement(update) ==
    LET old == aggregate.aggregates
        new == aggregate'.aggregates
    IN  /\ Len(new) \in {Len(old), Len(old) + 1}
        /\ \E g \in 1..Len(new) :
              /\ Len(new) > Len(old) => g = Len(new)
              /\ LET before == IF g <= Len(old) THEN old[g]
                               ELSE [new[g] EXCEPT !.exited = 0, !.errored = 0,
                                                   !.abnormal = 0, !.crashed = 0]
                 IN  new[g] = [before EXCEPT ![Counter(update)] = @ + 1]
              /\ \A i \in 1..Len(old) : i # g => new[i] = old[i]

\* C9: an update of terminal status on the aggregate path raises exactly one
\* counter of exactly one bucket by one (Exited without errors: exited,
\* Exited with errors: errored, Crashed: crashed, Abnormal: abnormal), so the
\* counters add up to the terminal updates aggregated since the last flush.
C9_OneCounterPerUpdate ==
    /\ [](TotalCount(aggregate) = aggCount)
    /\ [][(EnqueueStep /\ ~is_itemized(lastOp'.update, lastOp'.mode)
             /\ lastOp'.update.status # "Ok")
            => OneIncrement(lastOp'.update)]_vars

\* an errored and an abnormal session were counted
C9_Witness ==
    /\ aggCount = 2
    /\ \E i \in 1..Len(aggregate.aggregates) :
          aggregate.aggregates[i].errored = 1
    /\ \E i \in 1..Len(aggregate.aggregates) :
          aggregate.aggregates[i].abnormal = 1

\* C10: no two open buckets have the same (hour, distinct id) key, and an
\* aggregated update is counted in the bucket of the hour its started
\* timestamp lies in and of its distinct id.
C10_BucketKeys ==
    /\ [](\A i, j \in 1..Len(aggregate.aggregates) :
            i < j => \/ aggregate.aggregates[i].started
                          # aggregate.aggregates[j].started
                     \/ aggregate.aggregates[i].distinct_id
                          # aggregate.aggregates[j].distinct_id)
    /\ [][(EnqueueStep /\ ~is_itemized(lastOp'.update, lastOp'.mode)) =>
            LET old == aggregate.aggregates
                new == aggregate'.aggregates
                update == lastOp'.update
            IN  \E g \in 1..Len(new) :
                   /\ new[g].started = Hour(update.started)
                   /\ new[g].distinct_id = update.distinct_id
                   /\ update.status # "Ok" =>
                        BucketTotal(new[g]) =
                          (IF g <= Len(old) THEN BucketTotal(old[g]) ELSE 0) + 1]_vars

\* two updates started at different times of one hour share a bucket
C10_Witness ==
    /\ Len(aggregate.aggregates) = 1
    /\ BucketTotal(aggregate.aggregates[1]) = 2
    /\ lastOp.op = "enqueue"
    /\ lastOp.update.started # aggregate.aggregates[1].started

\* ========================================================================
\* Batching (SpecBatch): itemized updates of as many sessions are enqueued
\* one after the other and the flusher is dropped at any point; the
\* background thread never sees its interval elapse
\* ========================================================================
\* the final update of the n-th session; it is itemized in either mode
BatchUpdate(n, m) ==
    [session_id |-> n, distinct_id |-> NoDistinctId, started |-> 0,
     init |-> (m = "Application"), duration |-> 0, status |-> "Exited",
     errors |-> 0, attributes |-> [release |-> NoRelease]]

BatchEnqueue ==
    /\ pcDrop = "alive"
    /\ enqueues < MaxBatch
    /\ enqueues' = enqueues + 1
    /\ LET update == BatchUpdate(enqueues + 1, mode)
           r == enqueue(queue, aggregate, sent, update, mode, transport)
       IN  /\ queue' = r.queue
           /\ aggregate' = r.aggregate
           /\ sent' = r.sent
           /\ aggCount' = CountAfterEnqueue(update, mode, r.aggregate)
           /\ lastOp' = [op |-> "enqueue", update |-> update, mode |-> mode]
    /\ UNCHANGED <<now, ticks, mode, transport, sessionVars, pcDrop, discarded,
                   threadVars>>

\* impl Drop for SessionFlusher while the worker waits: the worker is woken,
\* sees the flag and returns without flushing; the drop then flushes
DropFlusher ==
    /\ pcDrop = "alive"
    /\ pcDrop' = "dropped"
    /\ LET r == flush(queue, aggregate, sent, transport)
       IN  /\ queue' = r.queue
           /\ aggregate' = r.aggregate
           /\ sent' = r.sent
    /\ aggCount' = 0
    /\ lastOp' = [op |-> "flush", update |-> NoUpdate, mode |-> "Application"]
    /\ UNCHANGED <<now, ticks, mode, transport, sessionVars, enqueues,
                   discarded, threadVars>>

NextBatch ==
    \/ BatchEnqueue
    \/ DropFlusher

SpecBatch == Init /\ [][NextBatch]_vars

\* the envelope holding the updates a..b of the batch, in order
BatchUnit(a, b) ==
    [i \in 1..(b - a + 1) |-> SessionItem(BatchUpdate(a + i - 1, mode))]
\* the updates a..b of the batch, in order
BatchRange(a, b) == [i \in 1..(b - a + 1) |-> BatchUpdate(a + i - 1, mode)]
FullUnits(n) == n \div MAX_SESSION_ITEMS
Rest(n) == n % MAX_SESSION_ITEMS
\* floor(n / 100) units of 100 updates each
FullUnitsSent(n) ==
    [k \in 1..FullUnits(n) |->
        BatchUnit((k - 1) * MAX_SESSION_ITEMS + 1, k * MAX_SESSION_ITEMS)]

\* C11: the enqueue that brings the itemized queue to 100 updates flushes
\* before it returns: after n enqueues exactly floor(n / 100) units of 100
\* updates each were handed to the transport and the queue holds the
\* n mod 100 updates enqueued since (none right after the 100th); once the
\* flusher is dropped these are handed over as one more unit when there are
\* any, and no unit is added when there are none.
C11_ThresholdFlush ==
    IF pcDrop = "alive"
    THEN /\ sent = FullUnitsSent(enqueues)
         /\ queue = BatchRange(enqueues - Rest(enqueues) + 1, enqueues)
    ELSE /\ queue = << >>
         /\ sent = IF Rest(enqueues) = 0 THEN FullUnitsSent(enqueues)
                   ELSE Append(FullUnitsSent(enqueues),
                               BatchUnit(enqueues - Rest(enqueues) + 1,
                                         enqueues))

\* 201 enqueues and the drop: units of 100, 100 and 1
C11_Witness ==
    /\ pcDrop = "dropped"
    /\ enqueues = 2 * MAX_SESSION_ITEMS + 1
    /\ Len(sent) = 3
    /\ Len(sent[1]) = MAX_SESSION_ITEMS
    /\ Len(sent[2]) = MAX_SESSION_ITEMS
    /\ Len(sent[3]) = 1

\* TRUE iff the envelope is an itemized unit: it holds no aggregates item
IsItemizedUnit(envelope) ==
    \A i \in 1..Len(envelope) : envelope[i].type = "SessionUpdate"
ItemizedUnits(snt) ==
    Cardinality({k \in 1..Len(snt) : IsItemizedUnit(snt[k])})
CeilDiv(n, d) == (n + d - 1) \div d
\* the length of the queue the flush of this step takes, -1 when the step
\* does not flush
BatchTaken ==
    IF pcDrop' # pcDrop THEN Len(queue)
    ELSE IF enqueues' # enqueues /\ Len(queue) + 1 >= MAX_SESSION_ITEMS
         THEN Len(queue) + 1
         ELSE 0 - 1

\* C19: every itemized unit handed to the transport holds at least 1 and at
\* most 100 updates, and a flush that takes a queue of n updates hands over
\* ceil(n / 100) itemized units: none for an empty queue.
C19_UnitSizes ==
    /\ [](\A k \in 1..Len(sent) :
            IsItemizedUnit(sent[k]) =>
                /\ Len(sent[k]) >= 1
                /\ Len(sent[k]) <= MAX_SESSION_ITEMS)
    /\ [][BatchTaken >= 0 =>
            ItemizedUnits(sent') - ItemizedUnits(sent)
                = CeilDiv(BatchTaken, MAX_SESSION_ITEMS)]_vars

\* 200 enqueues and the drop: the flush of the drop found the queue empty
\* and handed over nothing after the two units of the threshold flushes
C19_Witness ==
    /\ pcDrop = "dropped"
    /\ lastOp.op = "flush"
    /\ enqueues = 2 * MAX_SESSION_ITEMS
    /\ ItemizedUnits(sent) = 2
    /\ Len(sent) = 2

\* ========================================================================
\* The transport handle (SpecTransport): the flusher starts without a
\* transport; one is attached and detached at any time between the calls
\* ========================================================================
\* the update of terminal status handed over by the n-th enqueue call
TransportUpdates(n) ==
    {[session_id |-> n, distinct_id |-> NoDistinctId, started |-> 0,
      init |-> i, duration |-> IF status = "Exited" THEN 0 ELSE NoDuration,
      status |-> status, errors |-> 0,
      attributes |-> [release |-> NoRelease]] :
        i \in BOOLEAN, status \in {"Exited", "Crashed"}}

InitDetached ==
    /\ now = 0
    /\ ticks = 0
    /\ mode \in SessionMode
    /\ transport = FALSE
    /\ session = NoSession
    /\ hist = << >>
    /\ returned = NoItem
    /\ emitted = << >>
    /\ errEvents = 0
    /\ queue = << >>
    /\ aggregate = NoAggregate
    /\ sent = << >>
    /\ enqueues = 0
    /\ aggCount = 0
    /\ lastOp = NoOp
    /\ ExtInit

\* the client attaches a transport or takes it away
SetTransport(tr) ==
    /\ transport # tr
    /\ transport' = tr
    /\ UNCHANGED <<now, ticks, mode, sessionVars, flusherVars, enqueues,
                   aggCount, lastOp, extVars>>

\* the ids of the updates of a queue
QueueIds(q) == {q[i].session_id : i \in 1..Len(q)}

\* what a flush of the pending state q, n adds to the discarded updates
Discard(q, n, tr) ==
    IF tr THEN discarded
    ELSE [items |-> discarded.items \cup QueueIds(q),
          aggregated |-> discarded.aggregated + n]

TransportEnqueue(update) ==
    /\ enqueues < MaxEnqueues
    /\ enqueues' = enqueues + 1
    /\ LET r == enqueue(queue, aggregate, sent, update, mode, transport)
       IN  /\ queue' = r.queue
           /\ aggregate' = r.aggregate
           /\ sent' = r.sent
           /\ aggCount' = CountAfterEnqueue(update, mode, r.aggregate)
           /\ discarded' =
                IF is_itemized(update, mode) /\ r.queue = << >>
                THEN Discard(Append(queue, update), aggCount, transport)
                ELSE discarded
    /\ lastOp' = [op |-> "enqueue", update |-> update, mode |-> mode]
    /\ UNCHANGED <<now, ticks, mode, transport, sessionVars, pcDrop,
                   threadVars>>

TransportFlush ==
    /\ LET r == flush(queue, aggregate, sent, transport)
       IN  /\ queue' = r.queue
           /\ aggregate' = r.aggregate
           /\ sent' = r.sent
    /\ discarded' = Discard(queue, aggCount, transport)
    /\ aggCount' = 0
    /\ lastOp' = [op |-> "flush", update |-> NoUpdate, mode |-> "Application"]
    /\ UNCHANGED <<now, ticks, mode, transport, sessionVars, enqueues, pcDrop,
                   threadVars>>

NextTransport ==
    \/ \E tr \in BOOLEAN : SetTransport(tr)
    \/ \E update \in TransportUpdates(enqueues + 1) : TransportEnqueue(update)
    \/ TransportFlush

SpecTransport == InitDetached /\ [][NextTransport]_vars

\* the session ids of the updates delivered in itemized units
RECURSIVE DeliveredIds(_, _)
DeliveredIds(snt, k) ==
    IF k > Len(snt) THEN {}
    ELSE (IF IsItemizedUnit(snt[k])
          THEN {snt[k][i].update.session_id : i \in 1..Len(snt[k])}
          ELSE {})
         \cup DeliveredIds(snt, k + 1)
\* the number of updates delivered in itemized units
RECURSIVE DeliveredItems(_, _)
DeliveredItems(snt, k) ==
    IF k > Len(snt) THEN 0
    ELSE (IF IsItemizedUnit(snt[k]) THEN Len(snt[k]) ELSE 0)
         + DeliveredItems(snt, k + 1)
\* the number of updates counted in delivered aggregate units
RECURSIVE DeliveredCounts(_, _)
DeliveredCounts(snt, k) ==
    IF k > Len(snt) THEN 0
    ELSE (IF IsItemizedUnit(snt[k]) THEN 0
          ELSE SumCounts(snt[k][1].aggregates, 1))
         + DeliveredCounts(snt, k + 1)

\* C14: a flush that finds no transport attached still takes the pending
\* state: afterwards the queue is empty and no aggregate set is open, and
\* nothing was handed to the transport. The updates it took are never
\* delivered later, whatever is attached afterwards: no delivered itemized
\* unit holds one of them, and every update enqueued so far is exactly one
\* of pending, delivered or discarded.
C14_FlushWithoutTransport ==
    /\ [][(lastOp'.op = "flush" /\ lastOp' # lastOp /\ ~transport) =>
            /\ queue' = << >>
            /\ aggregate' = NoAggregate
            /\ sent' = sent]_vars
    /\ [](/\ DeliveredIds(sent, 1) \cap discarded.items = {}
          /\ DeliveredItems(sent, 1) = Cardinality(DeliveredIds(sent, 1))
          /\ enqueues = Len(queue) + aggCount
                        + DeliveredItems(sent, 1) + DeliveredCounts(sent, 1)
                        + Cardinality(discarded.items) + discarded.aggregated)

\* an update was discarded, a transport was attached afterwards and a later
\* flush delivered the one update enqueued since
C14_Witness ==
    /\ transport
    /\ lastOp.op = "flush"
    /\ Cardinality(discarded.items) + discarded.aggregated = 1
    /\ Len(sent) = 1
    /\ enqueues = 2

\* ========================================================================
\* More properties of the session (Spec)
\* ========================================================================
\* the step applies an event to the session
EventStep ==
    /\ Len(hist') = Len(hist) + 1
    /\ hist'[Len(hist')].op \in {"plain", "error", "unhandled", "unhandled_low"}
\* the class of the event the step applies
StepKind == hist'[Len(hist')].op

\* C15: update_from_event on an Ok session makes it Crashed exactly when
\* some exception of the event has a mechanism with handled = false, and
\* then counts one error in the same call, however many exceptions the event
\* carries; an event whose exceptions are all handled or of unknown handling
\* counts one error and leaves the session Ok.
C15_CrashIffUnhandled ==
    [][(EventStep /\ su.status = "Ok") =>
        /\ (session'.session_update.status = "Crashed"
                <=> StepKind \in {"unhandled", "unhandled_low"})
        /\ (StepKind \in {"unhandled", "unhandled_low"} =>
                session'.session_update.errors = su.errors + 1)
        /\ (StepKind = "error" =>
                /\ session'.session_update.status = "Ok"
                /\ session'.session_update.errors = su.errors + 1)]_vars

\* an error that leaves the session Ok, then an unhandled exception
C15_Witness ==
    /\ HistOps = <<"error", "unhandled">>
    /\ su.status = "Crashed"
    /\ su.errors = 2

\* the step is a call of create_envelope_item
ItemStep ==
    /\ Len(hist') = Len(hist) + 1
    /\ hist'[Len(hist')].op = "create_envelope_item"
\* the step is a call of update_from_event or of close, the close of the
\* drop included
MutatingStep == (Len(hist') = Len(hist) + 1 /\ ~ItemStep) \/ DropStep
\* status, errors and duration of an update
Observable(u) == <<u.status, u.errors, u.duration>>

\* C16: create_envelope_item returns an update exactly when the session is
\* dirty and leaves it not dirty, so the second of two consecutive calls
\* returns nothing; every call of update_from_event or close that changes
\* status, errors or duration leaves the session dirty.
C16_DirtyTracksChanges ==
    /\ [][ItemStep =>
            /\ (returned'.some <=> session.dirty)
            /\ ~session'.dirty
            /\ (returned'.some => returned'.update = su)]_vars
    /\ [][(ItemStep /\ hist # << >>
              /\ hist[Len(hist)].op = "create_envelope_item") =>
            ~returned'.some]_vars
    /\ [][(MutatingStep
              /\ Observable(session'.session_update) # Observable(su)) =>
            session'.dirty]_vars

\* an error is counted after the init delta: the next call returns the
\* update and the one right after it returns nothing
C16_Witness ==
    /\ Len(hist) = MaxSessionOps
    /\ hist[Len(hist)].op = "create_envelope_item"
    /\ hist[Len(hist) - 1].op = "create_envelope_item"
    /\ hist[Len(hist) - 1].dirty
    /\ ~hist[Len(hist)].dirty
    /\ hist[1].op = "error"
    /\ ~returned.some
    /\ Len(emitted) = 1

\* ========================================================================
\* More properties of enqueue (SpecEnqueue)
\* ========================================================================
\* C17: an update of status Ok that takes the aggregate path (request mode,
\* init = TRUE) is dropped: the enqueue leaves the pending state as it was,
\* that is, it opens no aggregate set, adds no bucket and changes no
\* counter, and nothing is handed to the transport.
C17_OkUpdateDropped ==
    [][(EnqueueStep /\ lastOp'.mode = "Request" /\ lastOp'.update.init
            /\ lastOp'.update.status = "Ok") =>
          /\ queue' = queue
          /\ aggregate' = aggregate
          /\ sent' = sent]_vars

\* ========================================================================
\* The threads around the flusher (SpecThreads): producers calling enqueue,
\* the background thread, and the drop of the flusher. The queue mutex is
\* held within single steps only; the shutdown mutex is held by the
\* background thread whenever it is not waiting on the condvar
\* ========================================================================
\* the head of flush copying the queue instead of taking it
take_leaves_queue(q, agg) ==
    [queue |-> q, aggregate |-> NoAggregate,
     batch |-> [queue |-> q, aggregate |-> agg]]

\* the head of flush: the pending state is taken and the lock released
take(q, agg) ==
    [queue |-> << >>, aggregate |-> NoAggregate,
     batch |-> [queue |-> q, aggregate |-> agg]]

\* the rest of flush, one part at a time: the aggregate set when there is
\* one, and then the items
send_next(batch, snt, tr) ==
    IF batch.aggregate.present
    THEN [batch |-> [batch EXCEPT !.aggregate = NoAggregate],
          sent |-> send_envelope(snt, <<AggregatesItem(batch.aggregate)>>, tr)]
    ELSE [batch |-> NoBatch,
          sent |-> IF batch.queue = << >> THEN snt
                   ELSE LET r == flush_items(batch.queue, 1, snt, tr)
                        IN  send_envelope(r.sent, r.envelope, tr)]

\* enqueue up to the release of the queue lock
enqueue_locked(q, agg, update, m) ==
    IF is_itemized(update, m)
    THEN LET q1 == Append(q, update)
         IN  IF Len(q1) >= MAX_SESSION_ITEMS
             THEN take(q1, agg)
             ELSE [queue |-> q1, aggregate |-> agg, batch |-> NoBatch]
    ELSE [queue |-> q, aggregate |-> enqueue_aggregate(agg, update),
          batch |-> NoBatch]

\* the background thread holds the guard of the shutdown mutex
WorkerHoldsGuard == pcWorker \in {"timeout", "woke", "flush"}

\* the final update of the n-th session; in request mode every other one
\* had a delta sent before
ThreadUpdate(n, m) ==
    [session_id |-> n, distinct_id |-> NoDistinctId, started |-> 0,
     init |-> (m = "Application" \/ n % 2 = 1), duration |-> 0,
     status |-> "Exited", errors |-> 0,
     attributes |-> [release |-> NoRelease]]

\* enqueue; the flush of a full queue goes on in ProducerSend
ProducerEnqueue(p, update, max) ==
    /\ pcDrop = "alive"
    /\ pcProducer[p] = "idle"
    /\ enqueues < max
    /\ enqueues' = enqueues + 1
    /\ LET r == enqueue_locked(queue, aggregate, update, mode)
       IN  /\ queue' = r.queue
           /\ aggregate' = r.aggregate
           /\ taken' = [taken EXCEPT ![p] = r.batch]
           /\ pcProducer' = [pcProducer EXCEPT
                                ![p] = IF r.batch = NoBatch THEN "idle"
                                       ELSE "flush"]
    /\ UNCHANGED <<now, ticks, mode, transport, sessionVars, sent, aggCount,
                   lastOp, pcDrop, discarded, pcWorker, shutdown, poisoned,
                   notified, elapsed>>

\* the flush of enqueue after the release of the queue lock
ProducerSend(p) ==
    /\ pcProducer[p] = "flush"
    /\ LET r == send_next(taken[p], sent, transport)
       IN  /\ sent' = r.sent
           /\ taken' = [taken EXCEPT ![p] = r.batch]
           /\ pcProducer' = [pcProducer EXCEPT
                                ![p] = IF r.batch = NoBatch THEN "idle"
                                       ELSE "flush"]
    /\ UNCHANGED <<now, ticks, mode, transport, sessionVars, queue, aggregate,
                   enqueues, aggCount, lastOp, pcDrop, discarded, pcWorker,
                   shutdown, poisoned, notified, elapsed>>

\* the clock the background thread reads advances
Elapse ==
    /\ pcWorker \notin {"start", "returned", "panicked"}
    /\ elapsed <= FLUSH_INTERVAL
    /\ elapsed' = elapsed + ClockStep
    /\ UNCHANGED <<now, ticks, mode, transport, sessionVars, flusherVars,
                   enqueues, aggCount, lastOp, pcDrop, discarded, pcWorker,
                   pcProducer, shutdown, poisoned, notified, taken>>

\* the thread locks the shutdown mutex, checks the flag and reads the clock
WorkerStart ==
    /\ pcWorker = "start"
    /\ pcWorker' = IF shutdown THEN "returned" ELSE "timeout"
    /\ elapsed' = 0
    /\ UNCHANGED <<now, ticks, mode, transport, sessionVars, flusherVars,
                   enqueues, aggCount, lastOp, pcDrop, discarded, pcProducer,
                   shutdown, poisoned, notified, taken>>

\* FLUSH_INTERVAL - last_flush.elapsed(): the subtraction of Duration panics
\* below zero, and the guard held is dropped while panicking
WorkerTimeout ==
    /\ pcWorker = "timeout"
    /\ IF elapsed > FLUSH_INTERVAL
       THEN /\ pcWorker' = "panicked"
            /\ poisoned' = TRUE
       ELSE /\ pcWorker' = "waiting"
            /\ UNCHANGED poisoned
    /\ UNCHANGED <<now, ticks, mode, transport, sessionVars, flusherVars,
                   enqueues, aggCount, lastOp, pcDrop, discarded, pcProducer,
                   shutdown, notified, elapsed, taken>>

\* wait_timeout returns: the thread was notified or the timeout ran out
WorkerWake ==
    /\ pcWorker = "waiting"
    /\ notified \/ elapsed >= FLUSH_INTERVAL
    /\ pcWorker' = "woke"
    /\ notified' = FALSE
    /\ UNCHANGED <<now, ticks, mode, transport, sessionVars, flusherVars,
                   enqueues, aggCount, lastOp, pcDrop, discarded, pcProducer,
                   shutdown, poisoned, elapsed, taken>>

\* wait_timeout returns early without a notification
WorkerSpuriousWake ==
    /\ pcWorker = "waiting"
    /\ ~notified
    /\ elapsed < FLUSH_INTERVAL
    /\ pcWorker' = "woke"
    /\ UNCHANGED <<now, ticks, mode, transport, sessionVars, flusherVars,
                   enqueues, aggCount, lastOp, pcDrop, discarded, pcProducer,
                   shutdown, poisoned, notified, elapsed, taken>>

\* after the wait: return on shutdown, continue before the interval is
\* over, and else flush: the pending state is taken
WorkerCheck ==
    /\ pcWorker = "woke"
    /\ IF shutdown
       THEN /\ pcWorker' = "returned"
            /\ UNCHANGED <<queue, aggregate, taken>>
       ELSE IF elapsed < FLUSH_INTERVAL
       THEN /\ pcWorker' = "timeout"
            /\ UNCHANGED <<queue, aggregate, taken>>
       ELSE LET r == take(queue, aggregate)
            IN  /\ pcWorker' = "flush"
                /\ queue' = r.queue
                /\ aggregate' = r.aggregate
                /\ taken' = [taken EXCEPT !["worker"] = r.batch]
    /\ UNCHANGED <<now, ticks, mode, transport, sessionVars, sent, enqueues,
                   aggCount, lastOp, pcDrop, discarded, pcProducer, shutdown,
                   poisoned, notified, elapsed>>

\* the flush of the background thread after the release of the queue lock
WorkerSend ==
    /\ pcWorker = "flush"
    /\ taken["worker"] # NoBatch
    /\ LET r == send_next(taken["worker"], sent, transport)
       IN  /\ sent' = r.sent
           /\ taken' = [taken EXCEPT !["worker"] = r.batch]
    /\ UNCHANGED <<now, ticks, mode, transport, sessionVars, queue, aggregate,
                   enqueues, aggCount, lastOp, pcDrop, discarded, pcWorker,
                   pcProducer, shutdown, poisoned, notified, elapsed>>

\* last_flush = Instant::now()
WorkerReset ==
    /\ pcWorker = "flush"
    /\ taken["worker"] = NoBatch
    /\ pcWorker' = "timeout"
    /\ elapsed' = 0
    /\ UNCHANGED <<now, ticks, mode, transport, sessionVars, flusherVars,
                   enqueues, aggCount, lastOp, pcDrop, discarded, pcProducer,
                   shutdown, poisoned, notified, taken>>

\* *lock.lock().unwrap() = true; the unwrap panics on a poisoned mutex. The
\* flusher is dropped by its owner, so no enqueue is under way
DropSignal ==
    /\ pcDrop = "alive"
    /\ \A p \in Producers : pcProducer[p] = "idle"
    /\ ~WorkerHoldsGuard
    /\ IF poisoned
       THEN /\ pcDrop' = "panicked"
            /\ UNCHANGED shutdown
       ELSE /\ pcDrop' = "notify"
            /\ shutdown' = TRUE
    /\ UNCHANGED <<now, ticks, mode, transport, sessionVars, flusherVars,
                   enqueues, aggCount, lastOp, discarded, pcWorker,
                   pcProducer, poisoned, notified, elapsed, taken>>

\* cvar.notify_one(): wakes the background thread if it is waiting
DropNotify ==
    /\ pcDrop = "notify"
    /\ pcDrop' = "join"
    /\ notified' = (pcWorker = "waiting")
    /\ UNCHANGED <<now, ticks, mode, transport, sessionVars, flusherVars,
                   enqueues, aggCount, lastOp, discarded, pcWorker,
                   pcProducer, shutdown, poisoned, elapsed, taken>>

\* the drop returning after the join, without the final flush
DropJoinSkipsFlush ==
    /\ pcDrop = "join"
    /\ pcWorker \in {"returned", "panicked"}
    /\ pcDrop' = "flush"
    /\ UNCHANGED <<now, ticks, mode, transport, sessionVars, flusherVars,
                   enqueues, aggCount, lastOp, discarded, pcWorker,
                   pcProducer, shutdown, poisoned, notified, elapsed, taken>>

\* worker.join().ok(), and the head of the final flush
DropJoin ==
    /\ pcDrop = "join"
    /\ pcWorker \in {"returned", "panicked"}
    /\ pcDrop' = "flush"
    /\ LET r == take(queue, aggregate)
       IN  /\ queue' = r.queue
           /\ aggregate' = r.aggregate
           /\ taken' = [taken EXCEPT !["drop"] = r.batch]
    /\ UNCHANGED <<now, ticks, mode, transport, sessionVars, sent, enqueues,
                   aggCount, lastOp, discarded, pcWorker, pcProducer,
                   shutdown, poisoned, notified, elapsed>>

\* the final flush after the release of the queue lock
DropSend ==
    /\ pcDrop = "flush"
    /\ taken["drop"] # NoBatch
    /\ LET r == send_next(taken["drop"], sent, transport)
       IN  /\ sent' = r.sent
           /\ taken' = [taken EXCEPT !["drop"] = r.batch]
    /\ UNCHANGED <<now, ticks, mode, transport, sessionVars, queue, aggregate,
                   enqueues, aggCount, lastOp, pcDrop, discarded, pcWorker,
                   pcProducer, shutdown, poisoned, notified, elapsed>>

\* drop returns
DropReturn ==
    /\ pcDrop = "flush"
    /\ taken["drop"] = NoBatch
    /\ pcDrop' = "dropped"
    /\ UNCHANGED <<now, ticks, mode, transport, sessionVars, flusherVars,
                   enqueues, aggCount, lastOp, discarded, pcWorker,
                   pcProducer, shutdown, poisoned, notified, elapsed, taken>>

WorkerNext ==
    \/ WorkerStart
    \/ WorkerTimeout
    \/ WorkerWake
    \/ WorkerCheck
    \/ WorkerSend
    \/ WorkerReset

DropNext ==
    \/ DropSignal
    \/ DropNotify
    \/ DropJoin
    \/ DropSend
    \/ DropReturn

NextThreads ==
    \/ \E p \in Producers :
          ProducerEnqueue(p, ThreadUpdate(enqueues + 1, mode),
                          MaxThreadEnqueues)
    \/ Elapse
    \/ WorkerNext
    \/ WorkerSpuriousWake
    \/ DropNext

SpecThreads == Init /\ [][NextThreads]_vars

\* the background thread runs and the clock advances; wait_timeout returns
\* when notified or timed out
SpecThreadsFair ==
    /\ SpecThreads
    /\ WF_vars(WorkerNext)
    /\ WF_vars(Elapse)

\* ========================================================================
\* Properties of the threads (SpecThreads)
\* ========================================================================
\* the enqueue calls so far whose update is itemized, and the others
ItemizedCalls ==
    {n \in 1..enqueues : mode = "Application" \/ n % 2 = 0}
AggregatedCalls == (1..enqueues) \ ItemizedCalls

\* C12: when the drop of the flusher returns, every update enqueued before
\* it started has been handed to the transport: nothing is pending or held
\* by a flush under way, every itemized update is in a delivered unit and
\* the delivered aggregate units count every aggregated one.
C12_ShutdownDelivers ==
    pcDrop = "dropped" =>
        /\ queue = << >>
        /\ ~aggregate.present
        /\ \A t \in Threads : taken[t] = NoBatch
        /\ DeliveredIds(sent, 1) = ItemizedCalls
        /\ DeliveredCounts(sent, 1) = Cardinality(AggregatedCalls)

\* five itemized updates and the drop, the clock never having advanced: one
\* unit with all five
C12_Witness ==
    /\ pcDrop = "dropped"
    /\ mode = "Application"
    /\ enqueues = 5
    /\ elapsed = 0
    /\ sent = <<[i \in 1..5 |-> SessionItem(ThreadUpdate(i, mode))]>>

\* the itemized updates held by the flushes under way, and how many
\* updates these flushes hold in queues and in aggregate sets
HeldIds == UNION {QueueIds(taken[t].queue) : t \in Threads}
RECURSIVE HeldItems(_)
HeldItems(T) ==
    IF T = {} THEN 0
    ELSE LET t == CHOOSE x \in T : TRUE
         IN  Len(taken[t].queue) + HeldItems(T \ {t})
RECURSIVE HeldCounts(_)
HeldCounts(T) ==
    IF T = {} THEN 0
    ELSE LET t == CHOOSE x \in T : TRUE
         IN  TotalCount(taken[t].aggregate) + HeldCounts(T \ {t})
\* the step is the head of a flush of the background thread or of the drop
TakeStep ==
    \/ pcWorker = "woke" /\ pcWorker' = "flush"
    \/ pcDrop = "join" /\ pcDrop' = "flush"

Pending == queue # << >> \/ aggregate.present
\* the step is the head of a flush of the background thread
WorkerTakeStep == pcWorker = "woke" /\ pcWorker' = "flush"
\* the step is the check of a wake-up before the interval is over, with no
\* shutdown signalled
EarlyWakeStep ==
    /\ pcWorker = "woke"
    /\ pcWorker' # "woke"
    /\ ~shutdown
    /\ elapsed < FLUSH_INTERVAL

\* C20: the background thread flushes only when the flush interval has
\* elapsed since its last flush or its start; a wake-up before that flushes
\* nothing and the thread goes back to waiting for the rest of the interval;
\* and while no shutdown is signalled, updates that are pending are
\* eventually taken by a flush of the thread.
C20_TimerFlush ==
    /\ [][WorkerTakeStep => elapsed >= FLUSH_INTERVAL]_vars
    /\ [][EarlyWakeStep =>
            /\ pcWorker' = "timeout"
            /\ UNCHANGED <<queue, aggregate, sent, taken>>]_vars
    /\ [][(pcWorker = "timeout" /\ pcWorker' # "timeout") =>
            pcWorker' = "waiting"]_vars
    /\ ((Pending /\ ~shutdown) ~> (~Pending \/ shutdown))

\* ========================================================================
\* The order of delivery (SpecOrder): the threads of SpecThreads, with the
\* updates of one session enqueued until the queue is full, within one
\* flush interval
\* ========================================================================
\* the n-th update of the session: errors counts up and stamps the update
OrderUpdate(n) ==
    [session_id |-> SessionId, distinct_id |-> NoDistinctId, started |-> 0,
     init |-> FALSE, duration |-> NoDuration, status |-> "Ok", errors |-> n,
     attributes |-> [release |-> NoRelease]]

\* the clock the background thread reads advances, within the run's length
ElapseWithin ==
    /\ ticks < MaxOrderTicks
    /\ ticks' = ticks + 1
    /\ pcWorker \notin {"start", "returned", "panicked"}
    /\ elapsed <= FLUSH_INTERVAL
    /\ elapsed' = elapsed + ClockStep
    /\ UNCHANGED <<now, mode, transport, sessionVars, flusherVars,
                   enqueues, aggCount, lastOp, pcDrop, discarded, pcWorker,
                   pcProducer, shutdown, poisoned, notified, taken>>

NextOrder ==
    \/ \E p \in Producers :
          ProducerEnqueue(p, OrderUpdate(enqueues + 1), MaxOrderEnqueues)
    \/ \E p \in Producers : ProducerSend(p)
    \/ ElapseWithin
    \/ WorkerNext
    \/ WorkerSpuriousWake
    \/ DropNext

SpecOrder == Init /\ [][NextOrder]_vars

\* the stamp of the i-th update of the k-th delivered unit
Stamp(k, i) == sent[k][i].update.errors

\* C13: the updates of a session reach the transport in the order of their
\* enqueue calls: within every delivered unit and from each unit to the
\* next, an update enqueued earlier comes before one enqueued later.
C13_SessionOrder ==
    \A k \in 1..Len(sent) :
        /\ \A i \in 1..(Len(sent[k]) - 1) : Stamp(k, i) < Stamp(k, i + 1)
        /\ k < Len(sent) => Stamp(k, Len(sent[k])) < Stamp(k + 1, 1)

\* ========================================================================
\* Shutdown (SpecShutdownFair): the threads of SpecThreads, where the
\* background thread keeps running and a drop that has set the flag goes
\* on; the clock need not advance, so only a notification or a spurious
\* return ends a wait before its timeout
\* ========================================================================
\* the steps of the drop after it has set the flag
DropProgress ==
    \/ DropNotify
    \/ DropJoin
    \/ DropSend
    \/ DropReturn

SpecShutdownFair ==
    /\ SpecThreads
    /\ WF_vars(WorkerNext)
    /\ WF_vars(DropProgress)

\* the step is a flush step of the background thread: the take or a send
WorkerFlushStep ==
    \/ WorkerTakeStep
    \/ pcWorker = "flush" /\ taken'["worker"] # taken["worker"]

\* C21: shutdown always completes. The drop never aborts; once the flag is
\* set the background thread exits and the drop returns, whether the flag
\* was set before the first check of the thread, while it waited or right
\* after a flush of it; the thread takes and sends nothing once the flag is
\* set; and the one final flush of the drop runs only after the thread has
\* returned and leaves nothing pending.
C21_ShutdownCompletes ==
    /\ [](pcDrop # "panicked")
    /\ [][WorkerFlushStep => ~shutdown /\ ~shutdown']_vars
    /\ [](pcDrop \in {"flush", "dropped"} => pcWorker = "returned")
    /\ [][(pcDrop = "flush" /\ pcDrop' = "dropped") => ~Pending]_vars
    /\ (shutdown ~> pcWorker = "returned")
    /\ (pcDrop = "notify" ~> pcDrop = "dropped")

\* C22: the timeout FLUSH_INTERVAL - last_flush.elapsed() is never below
\* zero when the background thread computes it, at any iteration of its
\* loop and however the clock advances between the check of the elapsed
\* time and the computation, so the thread never panics there.
C22_TimeoutNeverNegative ==
    /\ [](pcWorker = "timeout" => FLUSH_INTERVAL - elapsed >= 0)
    /\ [](pcWorker # "panicked")

====
